---- MODULE Spec2Model ----
(***************************************************************************)
(* Model of src/server/services/nsfw-detection.ts: the detectNSFW pipeline *)
(* (size check, metadata decode, format check, preprocessImage, mock       *)
(* decision, fail-safe catch), the in-memory audit log (logAudit,          *)
(* getAuditLogs, clearAuditLogs, getNSFWStats), and the lazy loading of    *)
(* the model (initializeModel, downloadModel).                             *)
(*                                                                         *)
(* Conventions.                                                            *)
(*  - An optional JavaScript value (T | undefined) is a sequence of length *)
(*    at most one: None is undefined, Some(x) is x.                        *)
(*  - A confidence is kept in hundredths (0.15 is 15, 0.7 is 70, 1.0 is    *)
(*    100), so that the comparisons of the code are integer comparisons.   *)
(*  - A string built by concatenation is the sequence of its pieces.       *)
(*  - An image buffer is described by what sharp does with it: what        *)
(*    metadata() resolves to (or that it rejects) and whether the          *)
(*    resize / raw pipeline succeeds.                                      *)
(*  - A call of detectNSFW occupies a slot; its steps are the stretches of  *)
(*    code between two awaits, each run without interruption as the event  *)
(*    loop runs them.  The exported synchronous functions are one step.    *)
(*  - new Date() reads a clock that advances by one tick per read.         *)
(***************************************************************************)
EXTENDS Integers, Sequences, FiniteSets, TLC

\* ------------------------------------------------------------------ bounds
\* Number of detectNSFW calls that may be in flight at once.
NumCalls == 2
\* Number of detectNSFW calls started in one behaviour.
MaxStarted == 2
\* Largest explicit limit passed to getAuditLogs (besides the default).
MaxLimit == 3
\* Number of callers of initializeModel in one behaviour.
NumInitCalls == 3

\* ------------------------------------------------------- program constants
NSFW_CONFIDENCE_THRESHOLD == 70
UNCERTAIN_THRESHOLD == 40
MOCK_CONFIDENCE == 15
FULL_CONFIDENCE == 100
MAX_IMAGE_SIZE_MB == 50
MAX_IMAGE_DIMENSION == 4096
MAX_AUDIT_LOGS == 10000
DEFAULT_LIMIT == 100
TENSOR_SIDE == 224

MaxSizeBytes == MAX_IMAGE_SIZE_MB * 1024 * 1024
AllowedFormats == {"jpeg", "png", "webp", "gif"}

\* ---------------------------------------------------------- JS primitives
None == << >>
Some(x) == << x >>
\* JavaScript truthiness of an optional number: undefined and 0 are falsy.
Truthy(v) == v # None /\ v[1] # 0
\* v || 0
OrZero(v) == IF Truthy(v) THEN v[1] ELSE 0
Min(a, b) == IF a < b THEN a ELSE b
Max(a, b) == IF a > b THEN a ELSE b

\* Array.prototype.slice(start): a new array, from index start (counted from
\* the end when negative, clamped to the array) to the end.
slice(arr, start) ==
  LET len == Len(arr)
      k   == IF start < 0 THEN Max(len + start, 0) ELSE Min(start, len)
  IN  SubSeq(arr, k + 1, len)

\* Array.prototype.reverse(): the receiver with its elements in reverse order.
reverse(arr) == [i \in 1..Len(arr) |-> arr[Len(arr) - i + 1]]

\* Array.prototype.splice(0, deleteCount): the receiver without its first
\* deleteCount elements.
splice0(arr, deleteCount) == SubSeq(arr, Min(Max(deleteCount, 0), Len(arr)) + 1, Len(arr))

\* String(error) for an Error object: name, ": ", message.
ErrorObject(message) == [name |-> "Error", message |-> message]
String(error) == << error.name, ": ", error.message >>
\* A string literal, as a one-piece string.
Str(s) == << s >>

\* ------------------------------------------------------------------ inputs
\* What sharp(imageBuffer).metadata() resolves to.
Metadata(format, width, height) == [format |-> format, width |-> width, height |-> height]
\* An image buffer: metadata is None when metadata() rejects (undecodable
\* buffer); pipeline tells how far the resize / raw pipeline of
\* preprocessImage gets on this buffer.
\* channels is the number of channels of the decoded image, which the resize
\* and the png encoding keep: 1 greyscale, 2 greyscale with alpha, 3 RGB,
\* 4 RGBA.
ImageOf(metadata, pipeline, channels) ==
  [metadata |-> metadata, pipeline |-> pipeline, channels |-> channels]
\* An RGB image.
Image(metadata, pipeline) == ImageOf(metadata, pipeline, 3)

Images ==
  { Image(None, "resizeFails"),
    Image(Some(Metadata(None, None, None)), "resizeFails"),
    Image(Some(Metadata(Some("tiff"), Some(100), Some(100))), "ok"),
    Image(Some(Metadata(Some("png"), Some(100), Some(100))), "ok"),
    Image(Some(Metadata(Some("jpeg"), Some(MAX_IMAGE_DIMENSION), Some(MAX_IMAGE_DIMENSION))), "ok"),
    Image(Some(Metadata(Some("jpeg"), Some(MAX_IMAGE_DIMENSION + 1), Some(100))), "ok"),
    Image(Some(Metadata(Some("webp"), Some(100), Some(MAX_IMAGE_DIMENSION + 1))), "ok"),
    Image(Some(Metadata(Some("gif"), None, Some(100))), "ok"),
    Image(Some(Metadata(Some("png"), Some(100), Some(100))), "resizeFails"),
    Image(Some(Metadata(Some("webp"), Some(100), Some(100))), "rawFails") }

FileSizes == { None, Some(0), Some(MaxSizeBytes), Some(MaxSizeBytes + 1) }
\* The images that are also submitted with a declared size.
SizedImages ==
  { Image(None, "resizeFails"),
    Image(Some(Metadata(Some("png"), Some(100), Some(100))), "ok") }
\* The (imageBuffer, fileSize) pairs detectNSFW is called with: every image
\* without a declared size, and the sized images with every declared size.
Input(imageBuffer, fileSize) == [imageBuffer |-> imageBuffer, fileSize |-> fileSize]
Inputs ==
  { Input(img, None) : img \in Images } \cup
  { Input(img, fs) : img \in SizedImages, fs \in FileSizes }
FileNames == { "upload.png" }
UserIds   == { None }
Limits    == (0..MaxLimit) \cup { DEFAULT_LIMIT }
Calls     == 1..NumCalls

\* The message of the error sharp rejects with on an undecodable buffer.
SharpError == ErrorObject("Input buffer contains unsupported image format")

\* ---------------------------------------------------------------- results
Result(isNSFW, confidence, category, error) ==
  [isNSFW |-> isNSFW, confidence |-> confidence, category |-> category, error |-> error]

\* The log argument of logAudit (an audit record without its timestamp).
AuditArg(userId, fileName, isNSFW, confidence, fileSize, dimensions, error) ==
  [userId |-> userId, fileName |-> fileName, isNSFW |-> isNSFW,
   confidence |-> confidence, fileSize |-> fileSize,
   dimensions |-> dimensions, error |-> error]

\* { ...log, timestamp: new Date() }
AuditEntry(log, timestamp) ==
  [userId |-> log.userId, fileName |-> log.fileName, isNSFW |-> log.isNSFW,
   confidence |-> log.confidence, fileSize |-> log.fileSize,
   dimensions |-> log.dimensions, error |-> log.error, timestamp |-> timestamp]

\* metadata.width && metadata.height ? { width, height } : undefined
Dimensions(metadata) ==
  IF Truthy(metadata.width) /\ Truthy(metadata.height)
  THEN Some([width |-> metadata.width[1], height |-> metadata.height[1]])
  ELSE None

\* Mutant: the size compared in whole megabytes (rounded down).
SizeExceeds_WholeMB(fileSize) ==
  Truthy(fileSize) /\ (fileSize[1] \div (1024 * 1024)) > MAX_IMAGE_SIZE_MB
\* fileSize && fileSize > MAX_IMAGE_SIZE_MB * 1024 * 1024
SizeExceeds(fileSize) == Truthy(fileSize) /\ fileSize[1] > MaxSizeBytes

\* Mutant: && written for ||, so that an absent format passes.
FormatInvalid_AndForOr(metadata) ==
  metadata.format # None /\ metadata.format[1] \notin AllowedFormats
\* !metadata.format || ![...].includes(metadata.format)
FormatInvalid(metadata) ==
  metadata.format = None \/ metadata.format[1] \notin AllowedFormats

\* The result literal of the size rejection.
SizeResult == Result(TRUE, FULL_CONFIDENCE, "nsfw", Some(Str("File size exceeds limit")))
SizeAudit(userId, fileName, fileSize) ==
  AuditArg(userId, fileName, TRUE, FULL_CONFIDENCE, OrZero(fileSize), None,
           Some(Str("File size exceeds limit")))

\* The result literal of the format rejection.
FormatResult == Result(TRUE, FULL_CONFIDENCE, "nsfw", Some(Str("Invalid image format")))
FormatAudit(userId, fileName, fileSize, metadata) ==
  AuditArg(userId, fileName, TRUE, FULL_CONFIDENCE, OrZero(fileSize),
           Dimensions(metadata), Some(Str("Invalid image format")))

\* Mutant: the thresholds are inclusive (>= where the code has >).
Category_Inclusive(confidence) ==
  IF confidence >= NSFW_CONFIDENCE_THRESHOLD THEN "nsfw"
  ELSE IF confidence >= UNCERTAIN_THRESHOLD THEN "uncertain"
  ELSE "safe"
\* The decision on a confidence.
Category(confidence) ==
  IF confidence > NSFW_CONFIDENCE_THRESHOLD THEN "nsfw"
  ELSE IF confidence > UNCERTAIN_THRESHOLD THEN "uncertain"
  ELSE "safe"
DetectionResult(confidence) ==
  Result(confidence > NSFW_CONFIDENCE_THRESHOLD, confidence, Category(confidence), None)
DetectionAudit(userId, fileName, fileSize, metadata, confidence) ==
  AuditArg(userId, fileName, confidence > NSFW_CONFIDENCE_THRESHOLD, confidence,
           OrZero(fileSize), Dimensions(metadata), None)

\* Mutant: a catch block that fails open.
CatchResult_FailOpen(error) == Result(FALSE, 0, "safe", Some(String(error)))
\* The catch block: the fail-safe result and its audit argument.
CatchResult(error) == Result(TRUE, FULL_CONFIDENCE, "nsfw", Some(String(error)))
CatchAudit(userId, fileName, fileSize, error) ==
  AuditArg(userId, fileName, TRUE, FULL_CONFIDENCE, OrZero(fileSize), None,
           Some(String(error)))

\* ------------------------------------------------------------- preprocess
\* !metadata.width || !metadata.height
DimensionsMissing(metadata) == ~Truthy(metadata.width) \/ ~Truthy(metadata.height)
\* Mutant: only the width is checked.
DimensionsExceed_WidthOnly(metadata) == metadata.width[1] > MAX_IMAGE_DIMENSION
\* metadata.width > MAX_IMAGE_DIMENSION || metadata.height > MAX_IMAGE_DIMENSION
DimensionsExceed(metadata) ==
  metadata.width[1] > MAX_IMAGE_DIMENSION \/ metadata.height[1] > MAX_IMAGE_DIMENSION
\* The 8-bit sample of channel ch of pixel px (both counted from 0, pixels
\* left to right and top to bottom) of the 224 x 224 image the resize yields.
Raster(img, px, ch) == (37 * px + 101 * ch + 11 * img.channels) % 256
\* sharp(resizedBuffer).raw().toBuffer(...): the samples of the image, pixel
\* by pixel, with the channels the image has (toBuffer reads no rawOptions,
\* and no removeAlpha / toColourspace is applied).
RawPixels(img) ==
  [length |-> TENSOR_SIDE * TENSOR_SIDE * img.channels, channels |-> img.channels,
   image |-> img]
\* pixels[i]
PixelAt(pixels, i) == Raster(pixels.image, i \div pixels.channels, i % pixels.channels)
\* p / 127.5 - 1.0, as the fraction (2p - 255) / 255.
Normalize(p) == [num |-> 2 * p - 255, den |-> 255]
\* new Float32Array(224 * 224 * 3), filled by the loop over the raw pixels.
Tensor(pixels) == [length |-> TENSOR_SIDE * TENSOR_SIDE * 3, pixels |-> pixels]
\* tensor[i] for 0 <= i < tensor.length: the loop writes element i for every
\* i < pixels.length (a write past the end of the typed array is dropped);
\* an element the loop does not reach keeps its initial 0.
TensorAt(tensor, i) ==
  IF i < tensor.pixels.length
  THEN Normalize(PixelAt(tensor.pixels, i))
  ELSE [num |-> 0, den |-> 1]

\* ------------------------------------------------------------- audit log
\* Mutant: the log is cut back to its bound from the wrong end.
logAudit_DropNewest(logs, log, timestamp) ==
  LET pushed == Append(logs, AuditEntry(log, timestamp))
  IN  IF Len(pushed) > MAX_AUDIT_LOGS
      THEN SubSeq(pushed, 1, MAX_AUDIT_LOGS)
      ELSE pushed

\* logAudit: push the stamped entry, then keep only the last 10000.
logAudit(logs, log, timestamp) ==
  LET pushed == Append(logs, AuditEntry(log, timestamp))
  IN  IF Len(pushed) > MAX_AUDIT_LOGS
      THEN splice0(pushed, Len(pushed) - MAX_AUDIT_LOGS)
      ELSE pushed

\* Mutant: reverse() applied to the log itself, then the first limit taken.
getAuditLogs_InPlace(logs, limit) ==
  [auditLogs |-> reverse(logs), ret |-> SubSeq(reverse(logs), 1, Min(limit, Len(logs)))]

\* getAuditLogs: the audit log as the call leaves it, and the array returned.
getAuditLogs(logs, limit) ==
  [auditLogs |-> logs, ret |-> reverse(slice(logs, 0 - limit))]

\* clearAuditLogs: auditLogs.length = 0
clearAuditLogs(logs) == SubSeq(logs, 1, 0)

\* Mutant: the filter is inverted and counts the entries that were allowed.
BlockedCount_Allowed(logs) == Cardinality({ i \in 1..Len(logs) : ~logs[i].isNSFW })
\* blockedCount: auditLogs.filter(log => log.isNSFW).length
BlockedCount(logs) == Cardinality({ i \in 1..Len(logs) : logs[i].isNSFW })
\* Mutant: the rate is computed without the guard on totalChecks, so that an
\* empty log gives 0 / 0.
BlockRate_Unguarded(blockedCount, totalChecks) ==
  [num |-> blockedCount * 100, den |-> totalChecks]
\* (blockedCount / totalChecks) * 100, as the fraction num / den.
BlockRate(blockedCount, totalChecks) ==
  IF totalChecks > 0 THEN [num |-> blockedCount * 100, den |-> totalChecks]
  ELSE [num |-> 0, den |-> 1]
\* getNSFWStats: the audit log as the call leaves it, and the object returned.
getNSFWStats(logs) ==
  LET totalChecks  == Len(logs)
      blockedCount == BlockedCount(logs)
  IN  [auditLogs |-> logs,
       ret |-> [totalChecks |-> totalChecks, blockedCount |-> blockedCount,
                allowedCount |-> totalChecks - blockedCount,
                blockRate |-> BlockRate(blockedCount, totalChecks)]]

\* The audit log after 10,000 allowed detections of a 100x100 image: the log
\* at its bound, no entry evicted yet.
PrefillLog ==
  AuditArg(None, "upload.png", FALSE, MOCK_CONFIDENCE, 0,
           Some([width |-> 100, height |-> 100]), None)
Prefill == [i \in 1..MAX_AUDIT_LOGS |-> AuditEntry(PrefillLog, i - 1)]

\* ------------------------------------------------------------------- state
VARIABLES
  auditLogs,   \* the module-level array of audit records
  now,         \* the clock read by new Date() (one tick per read)
  pc,          \* per call: where the call is suspended
  args,        \* per call: the arguments of detectNSFW
  metadata,    \* per call: the local metadata of detectNSFW
  tensorData,  \* per call: what preprocessImage resolves to (None is null)
  result,      \* per call: the value the call returned
  started,     \* number of calls started so far
  ret,         \* the administrative operation of the last step and its return value
  recorded,    \* history: the entries recorded since the initial state or the
               \* last clear, and whether the initial log precedes them
  logged,      \* history, per call: the entries the call recorded
  invoked,     \* history, per call: the stages the call invoked
  modelSession,     \* the module-level session (None is null)
  modelLoadPromise, \* the module-level promise (None is null), as the index
                    \* of the promise in promises
  promises,    \* the promises created by initializeModel, each with its state
  initPc,      \* per caller of initializeModel: where the call is
  awaited,     \* per caller: the promise the call awaits (0 for none)
  initRet,     \* per caller: what the call returned, or what it threw
  arrived      \* history, per caller: the promise that was pending when the
               \* call was made (0 for none)

programVars == << auditLogs, now, pc, args, metadata, tensorData, result, started,
                  ret, recorded, logged, invoked >>

engineVars == << modelSession, modelLoadPromise, promises, initPc, awaited,
                 initRet, arrived >>

vars == << programVars, engineVars >>

callVars == << pc, args, metadata, tensorData, result, started, logged, invoked >>

NoRet == [op |-> "none", arg |-> 0, value |-> << >>]

Args(imageBuffer, fileName, userId, fileSize) ==
  [imageBuffer |-> imageBuffer, fileName |-> fileName, userId |-> userId,
   fileSize |-> fileSize]

InitCalls ==
  /\ pc = [c \in Calls |-> "idle"]
  /\ args = [c \in Calls |-> None]
  /\ metadata = [c \in Calls |-> None]
  /\ tensorData = [c \in Calls |-> None]
  /\ result = [c \in Calls |-> None]
  /\ started = 0
  /\ ret = NoRet
  /\ logged = [c \in Calls |-> << >>]
  /\ invoked = [c \in Calls |-> {}]

InitCallers == 1..NumInitCalls

\* let modelSession = null; let modelLoadPromise = null; no call of
\* initializeModel made.
InitEngine ==
  /\ modelSession = None
  /\ modelLoadPromise = None
  /\ promises = << >>
  /\ initPc = [k \in InitCallers |-> "idle"]
  /\ awaited = [k \in InitCallers |-> 0]
  /\ initRet = [k \in InitCallers |-> None]
  /\ arrived = [k \in InitCallers |-> 0]

\* The state after the module is loaded: const auditLogs = [].
Init ==
  /\ auditLogs = << >>
  /\ now = 0
  /\ recorded = [prefilled |-> FALSE, entries |-> << >>]
  /\ InitCalls
  /\ InitEngine

\* ----------------------------------------------------------------- actions
\* The call records one audit entry and returns res.
Finish(c, res, log) ==
  /\ auditLogs' = logAudit(auditLogs, log, now)
  /\ now' = now + 1
  /\ recorded' = [recorded EXCEPT !.entries = Append(@, AuditEntry(log, now))]
  /\ logged' = [logged EXCEPT ![c] = Append(@, AuditEntry(log, now))]
  /\ result' = [result EXCEPT ![c] = Some(res)]
  /\ pc' = [pc EXCEPT ![c] = "returned"]

\* Mutant: the error is rethrown to the caller instead of being handled.
Catch_Rethrow(c, a, error) ==
  /\ pc' = [pc EXCEPT ![c] = "threw"]
  /\ UNCHANGED << auditLogs, now, recorded, logged, result >>
\* The catch block of detectNSFW on a thrown error.
Catch(c, a, error) ==
  Finish(c, CatchResult(error), CatchAudit(a.userId, a.fileName, a.fileSize, error))

\* Mutant: the size rejection returns without calling logAudit.
RejectSize_NoAudit(c, a) ==
  /\ result' = [result EXCEPT ![c] = Some(SizeResult)]
  /\ pc' = [pc EXCEPT ![c] = "returned"]
  /\ UNCHANGED << auditLogs, now, recorded, logged >>
\* The size rejection.
RejectSize(c, a) ==
  Finish(c, SizeResult, SizeAudit(a.userId, a.fileName, a.fileSize))

\* The format rejection.
RejectFormat(c, a, md) ==
  Finish(c, FormatResult, FormatAudit(a.userId, a.fileName, a.fileSize, md))

\* The decision on a confidence, its audit entry and the return of the result.
DecideOn(c, a, md, confidence) ==
  Finish(c, DetectionResult(confidence),
         DetectionAudit(a.userId, a.fileName, a.fileSize, md, confidence))

\* Mutant: the stand-in confidence lies between the two thresholds.
Decide_Uncertain(c, a, md) == DecideOn(c, a, md, UNCERTAIN_THRESHOLD + 15)
\* Mutant: the decision reads the audit log: the mock confidence on an empty
\* log, the full confidence once the log holds an entry.
Decide_LogDependent(c, a, md) ==
  DecideOn(c, a, md, IF auditLogs = << >> THEN MOCK_CONFIDENCE ELSE FULL_CONFIDENCE)
\* The decision of detectNSFW: const confidence = 0.15 stands where the model
\* would be run.
Decide(c, a, md) == DecideOn(c, a, md, MOCK_CONFIDENCE)

\* preprocessImage resolves to v; detectNSFW is resumed in a later step.
PreprocessResolves(c, v) ==
  /\ tensorData' = [tensorData EXCEPT ![c] = v]
  /\ pc' = [pc EXCEPT ![c] = "awaitPreprocess"]
  /\ ret' = NoRet
  /\ UNCHANGED << auditLogs, now, args, metadata, result, started, recorded, logged, invoked >>

\* detectNSFW is called: it runs up to its first await (the size check, then
\* the call of sharp(imageBuffer).metadata()).  The call takes the lowest free
\* slot.
Start(c, imageBuffer, fileName, userId, fileSize) ==
  LET a == Args(imageBuffer, fileName, userId, fileSize) IN
  /\ pc[c] = "idle"
  /\ \A d \in 1..(c - 1) : pc[d] # "idle"
  /\ started < MaxStarted
  /\ started' = started + 1
  /\ args' = [args EXCEPT ![c] = Some(a)]
  /\ ret' = NoRet
  /\ IF SizeExceeds(fileSize)
     THEN /\ RejectSize(c, a)
          /\ UNCHANGED << metadata, tensorData, invoked >>
     ELSE /\ pc' = [pc EXCEPT ![c] = "awaitMetadata"]
          /\ invoked' = [invoked EXCEPT ![c] = @ \cup {"metadata"}]
          /\ UNCHANGED << auditLogs, now, metadata, tensorData, result, recorded, logged >>
  /\ UNCHANGED engineVars

\* metadata() settles: the format check, then the call of preprocessImage,
\* which runs up to its own first await (metadata() again).
ResumeMetadata(c) ==
  LET a == args[c][1] IN
  /\ pc[c] = "awaitMetadata"
  /\ ret' = NoRet
  /\ IF a.imageBuffer.metadata = None
     THEN /\ Catch(c, a, SharpError)
          /\ UNCHANGED << args, metadata, tensorData, started, invoked >>
     ELSE LET md == a.imageBuffer.metadata[1] IN
          /\ metadata' = [metadata EXCEPT ![c] = Some(md)]
          /\ IF FormatInvalid(md)
             THEN /\ RejectFormat(c, a, md)
                  /\ UNCHANGED << args, tensorData, started, invoked >>
             ELSE /\ pc' = [pc EXCEPT ![c] = "awaitPreMetadata"]
                  /\ invoked' = [invoked EXCEPT ![c] = @ \cup {"preprocessImage"}]
                  /\ UNCHANGED << auditLogs, now, args, tensorData, result, started,
                                  recorded, logged >>
  /\ UNCHANGED engineVars

\* Inside preprocessImage, metadata() settles: the dimension checks, then the
\* start of the resize.  A rejection and a throw both end in return null.
PreprocessMetadata(c) ==
  LET img == args[c][1].imageBuffer IN
  /\ pc[c] = "awaitPreMetadata"
  /\ IF img.metadata = None
     THEN PreprocessResolves(c, None)
     ELSE IF DimensionsMissing(img.metadata[1])
     THEN PreprocessResolves(c, None)
     ELSE IF DimensionsExceed(img.metadata[1])
     THEN PreprocessResolves(c, None)
     ELSE /\ pc' = [pc EXCEPT ![c] = "awaitResize"]
          /\ ret' = NoRet
          /\ UNCHANGED << auditLogs, now, args, metadata, tensorData, result, started,
                          recorded, logged, invoked >>
  /\ UNCHANGED engineVars

\* Inside preprocessImage, resize(224, 224).png().toBuffer() settles.
PreprocessResize(c) ==
  /\ pc[c] = "awaitResize"
  /\ IF args[c][1].imageBuffer.pipeline = "resizeFails"
     THEN PreprocessResolves(c, None)
     ELSE /\ pc' = [pc EXCEPT ![c] = "awaitRaw"]
          /\ ret' = NoRet
          /\ UNCHANGED << auditLogs, now, args, metadata, tensorData, result, started,
                          recorded, logged, invoked >>
  /\ UNCHANGED engineVars

\* Inside preprocessImage, raw().toBuffer() settles; the tensor is filled.
PreprocessRaw(c) ==
  /\ pc[c] = "awaitRaw"
  /\ IF args[c][1].imageBuffer.pipeline = "rawFails"
     THEN PreprocessResolves(c, None)
     ELSE PreprocessResolves(c, Some(Tensor(RawPixels(args[c][1].imageBuffer))))
  /\ UNCHANGED engineVars

\* detectNSFW resumes after await preprocessImage(imageBuffer).
ResumePreprocess(c) ==
  LET a == args[c][1] IN
  /\ pc[c] = "awaitPreprocess"
  /\ ret' = NoRet
  /\ IF tensorData[c] = None
     THEN Catch(c, a, ErrorObject("Image preprocessing failed"))
     ELSE Decide(c, a, metadata[c][1])
  /\ UNCHANGED << args, metadata, tensorData, started, invoked >>
  /\ UNCHANGED engineVars

\* The caller has taken the result; the slot serves another call.
Release(c) ==
  /\ pc[c] \in {"returned", "threw"}
  /\ pc' = [pc EXCEPT ![c] = "idle"]
  /\ args' = [args EXCEPT ![c] = None]
  /\ metadata' = [metadata EXCEPT ![c] = None]
  /\ tensorData' = [tensorData EXCEPT ![c] = None]
  /\ result' = [result EXCEPT ![c] = None]
  /\ logged' = [logged EXCEPT ![c] = << >>]
  /\ invoked' = [invoked EXCEPT ![c] = {}]
  /\ ret' = NoRet
  /\ UNCHANGED << auditLogs, now, started, recorded >>
  /\ UNCHANGED engineVars

GetAuditLogs(limit) ==
  LET r == getAuditLogs(auditLogs, limit) IN
  /\ auditLogs' = r.auditLogs
  /\ ret' = [op |-> "getAuditLogs", arg |-> limit, value |-> r.ret]
  /\ UNCHANGED << now, recorded, callVars >>
  /\ UNCHANGED engineVars

ClearAuditLogs ==
  /\ auditLogs' = clearAuditLogs(auditLogs)
  /\ recorded' = [prefilled |-> FALSE, entries |-> << >>]
  /\ ret' = [op |-> "clearAuditLogs", arg |-> 0, value |-> << >>]
  /\ UNCHANGED << now, callVars >>
  /\ UNCHANGED engineVars

GetNSFWStats ==
  LET r == getNSFWStats(auditLogs) IN
  /\ auditLogs' = r.auditLogs
  /\ ret' = [op |-> "getNSFWStats", arg |-> 0, value |-> r.ret]
  /\ UNCHANGED << now, recorded, callVars >>
  /\ UNCHANGED engineVars

\* One step of the call in slot c.
Step(c) ==
  \/ ResumeMetadata(c)
  \/ PreprocessMetadata(c)
  \/ PreprocessResize(c)
  \/ PreprocessRaw(c)
  \/ ResumePreprocess(c)

\* The steps of the program, with the calls of detectNSFW made in slots, their
\* arguments drawn from inputs, and the limits of getAuditLogs from limits.
NextWith(slots, inputs, limits) ==
  \/ \E c \in slots, in \in inputs, fn \in FileNames, u \in UserIds :
       Start(c, in.imageBuffer, fn, u, in.fileSize)
  \/ \E c \in slots : Step(c)
  \/ \E c \in slots : Release(c)
  \/ \E limit \in limits : GetAuditLogs(limit)
  \/ ClearAuditLogs
  \/ GetNSFWStats

Next == NextWith(Calls, Inputs, Limits)

Spec == Init /\ [][Next]_vars

\* The scheduling of the event loop: a settled promise's continuation is run,
\* and sharp's promises settle, so a suspended call is eventually resumed.
FairSpec == Spec /\ \A c \in Calls : WF_vars(Step(c))

\* The same program observed from the state it is in after 10,000 allowed
\* detections (the log at its bound), with its calls made one after the other.
AuditInit ==
  /\ auditLogs = Prefill
  /\ now = MAX_AUDIT_LOGS
  /\ recorded = [prefilled |-> TRUE, entries |-> << >>]
  /\ InitCalls
  /\ InitEngine
AuditInputs == { Input(img, fs) : img \in SizedImages, fs \in { None, Some(MaxSizeBytes + 1) } }
AuditLimits == { 0, MAX_AUDIT_LOGS, MAX_AUDIT_LOGS + 1 }
AuditNext == NextWith({1}, AuditInputs, AuditLimits)
AuditSpec == AuditInit /\ [][AuditNext]_vars

\* The decision policy of detectNSFW (the threshold comparison, the category
\* and the audit entry) applied to every confidence the model could report:
\* the call resumes after preprocessing with a tensor, and confidence is drawn
\* from Confidences where the code has its constant.
Confidences == { 0, MOCK_CONFIDENCE, UNCERTAIN_THRESHOLD, UNCERTAIN_THRESHOLD + 1,
                 NSFW_CONFIDENCE_THRESHOLD, NSFW_CONFIDENCE_THRESHOLD + 1,
                 FULL_CONFIDENCE }
ResumePreprocessOn(c, confidence) ==
  /\ pc[c] = "awaitPreprocess"
  /\ tensorData[c] # None
  /\ ret' = NoRet
  /\ DecideOn(c, args[c][1], metadata[c][1], confidence)
  /\ UNCHANGED << args, metadata, tensorData, started, invoked >>
  /\ UNCHANGED engineVars
PolicyInputs == { Input(Image(Some(Metadata(Some("png"), Some(100), Some(100))), "ok"), None) }
PolicyNext ==
  \/ \E in \in PolicyInputs, fn \in FileNames, u \in UserIds :
       Start(1, in.imageBuffer, fn, u, in.fileSize)
  \/ ResumeMetadata(1)
  \/ PreprocessMetadata(1)
  \/ PreprocessResize(1)
  \/ PreprocessRaw(1)
  \/ \E confidence \in Confidences : ResumePreprocessOn(1, confidence)
  \/ Release(1)
PolicySpec == Init /\ [][PolicyNext]_vars

\* preprocessImage on valid images of every channel count, one call at a time.
ChannelCounts == 1..4
TensorInputs ==
  { Input(ImageOf(Some(Metadata(Some("png"), Some(100), Some(100))), "ok", ch), None) :
      ch \in ChannelCounts }
TensorNext == NextWith({1}, TensorInputs, {1})
TensorSpec == Init /\ [][TensorNext]_vars

\* ------------------------------------------------------------------ engine
\* initializeModel and downloadModel.  The file system downloadModel meets is
\* drawn at each call: the cache directory missing and not creatable
\* (mkdirSync throws), missing and creatable, present, or present with the
\* model file in it.
FileSystems == { "noDirReadOnly", "noDir", "dir", "cached" }
FsError == ErrorObject("EACCES: permission denied, mkdir")
\* path.join(MODEL_CACHE_DIR, 'nsfw.onnx')
ModelPath == << "cwd", "/", ".model-cache", "/", "nsfw.onnx" >>

\* downloadModel(): the promise the async function returns, already settled
\* (its body has no await).  A throw of mkdirSync rejects it; both return
\* statements fulfil it with modelPath.
downloadModel(fs) ==
  IF fs = "noDirReadOnly"
  THEN [state |-> "rejected", value |-> FsError]
  ELSE [state |-> "fulfilled", value |-> ModelPath]

\* The promise that is pending, if any (0 for none).
PendingPromise ==
  IF \E p \in 1..Len(promises) : promises[p].state = "pending"
  THEN CHOOSE p \in 1..Len(promises) : promises[p].state = "pending"
  ELSE 0

\* Mutant: initializeModel tests modelSession only, and starts a load whenever
\* no session is there.
InitializeModel_NoPromiseGuard(k, fs) ==
  /\ initPc[k] = "idle"
  /\ arrived' = [arrived EXCEPT ![k] = PendingPromise]
  /\ promises' = Append(promises, [state |-> "pending", download |-> downloadModel(fs),
                                   reason |-> None])
  /\ modelLoadPromise' = Some(Len(promises) + 1)
  /\ initPc' = [initPc EXCEPT ![k] = "awaitLoad"]
  /\ awaited' = [awaited EXCEPT ![k] = Len(promises) + 1]
  /\ UNCHANGED << modelSession, initRet >>
  /\ UNCHANGED programVars
\* initializeModel() is called and runs up to its first await: it returns the
\* session if there is one, else awaits the load in progress if
\* modelLoadPromise is set, else starts the load (the async arrow function
\* runs downloadModel and is suspended at its await) and awaits it.
InitializeModel(k, fs) ==
  /\ initPc[k] = "idle"
  /\ arrived' = [arrived EXCEPT ![k] = PendingPromise]
  /\ IF modelSession # None
     THEN /\ initPc' = [initPc EXCEPT ![k] = "returned"]
          /\ initRet' = [initRet EXCEPT ![k] = modelSession]
          /\ UNCHANGED << modelSession, modelLoadPromise, promises, awaited >>
     ELSE IF modelLoadPromise # None
     THEN /\ initPc' = [initPc EXCEPT ![k] = "awaitLoad"]
          /\ awaited' = [awaited EXCEPT ![k] = modelLoadPromise[1]]
          /\ UNCHANGED << modelSession, modelLoadPromise, promises, initRet >>
     ELSE /\ promises' = Append(promises, [state |-> "pending",
                                           download |-> downloadModel(fs),
                                           reason |-> None])
          /\ modelLoadPromise' = Some(Len(promises) + 1)
          /\ initPc' = [initPc EXCEPT ![k] = "awaitLoad"]
          /\ awaited' = [awaited EXCEPT ![k] = Len(promises) + 1]
          /\ UNCHANGED << modelSession, initRet >>
  /\ UNCHANGED programVars

\* The async arrow function resumes after await downloadModel(): on a path it
\* logs and ends (the creation of the session is commented out, modelSession
\* is not assigned); on a rejection it logs and rethrows.
LoadSettles(p) ==
  /\ p \in 1..Len(promises)
  /\ promises[p].state = "pending"
  /\ promises' = [promises EXCEPT ![p] =
       IF promises[p].download.state = "fulfilled"
       THEN [promises[p] EXCEPT !.state = "fulfilled"]
       ELSE [promises[p] EXCEPT !.state = "rejected",
                                !.reason = Some(promises[p].download.value)]]
  /\ UNCHANGED << modelSession, modelLoadPromise, initPc, awaited, initRet, arrived >>
  /\ UNCHANGED programVars

\* initializeModel resumes after await modelLoadPromise: return modelSession!
\* if the promise was fulfilled, the rejection thrown on if it was rejected.
ResumeInitialize(k) ==
  /\ initPc[k] = "awaitLoad"
  /\ promises[awaited[k]].state # "pending"
  /\ IF promises[awaited[k]].state = "fulfilled"
     THEN /\ initPc' = [initPc EXCEPT ![k] = "returned"]
          /\ initRet' = [initRet EXCEPT ![k] = modelSession]
     ELSE /\ initPc' = [initPc EXCEPT ![k] = "threw"]
          /\ initRet' = [initRet EXCEPT ![k] = promises[awaited[k]].reason]
  /\ UNCHANGED << modelSession, modelLoadPromise, promises, awaited, arrived >>
  /\ UNCHANGED programVars

\* The engine under callers of initializeModel, each calling once.
EngineNext ==
  \/ \E k \in InitCallers, fs \in FileSystems : InitializeModel(k, fs)
  \/ \E p \in 1..NumInitCalls : LoadSettles(p)
  \/ \E k \in InitCallers : ResumeInitialize(k)
EngineSpec == Init /\ [][EngineNext]_vars

\* -------------------------------------------------------------- properties
\* Vocabulary of the properties, stated on the inputs of a call.
FailClosed(r) == r.isNSFW /\ r.confidence = 100 /\ r.category = "nsfw"
FailClosedWithError(r) == FailClosed(r) /\ r.error # None
Oversize(a) == a.fileSize # None /\ a.fileSize[1] > 50 * 1024 * 1024
Undecodable(a) == a.imageBuffer.metadata = None
BadFormat(a) ==
  \/ Undecodable(a)
  \/ a.imageBuffer.metadata[1].format = None
  \/ a.imageBuffer.metadata[1].format[1] \notin {"jpeg", "png", "webp", "gif"}
BadDimensions(a) ==
  /\ ~Undecodable(a)
  /\ LET md == a.imageBuffer.metadata[1] IN
       \/ md.width = None
       \/ md.height = None
       \/ md.width[1] > 4096
       \/ md.height[1] > 4096
PipelineFails(a) == a.imageBuffer.pipeline # "ok"
FailureOccurred(a) ==
  Oversize(a) \/ BadFormat(a) \/ BadDimensions(a) \/ PipelineFails(a)
Returned(c) == pc[c] = "returned" /\ result[c] # None

\* C1: every returned result whose error is set is the fail-closed triple
\* (isNSFW, confidence 1.0, category nsfw), and a call on which a validation,
\* metadata-decoding or preprocessing failure occurred never returns
\* isNSFW = false.
C1_FailClosed ==
  \A c \in Calls :
    result[c] # None =>
      /\ result[c][1].error # None => FailClosed(result[c][1])
      /\ FailureOccurred(args[c][1]) => result[c][1].isNSFW

\* A call whose preprocessing failed has returned with its error set.
C1_Witness ==
  \E c \in Calls :
    /\ Returned(c)
    /\ "preprocessImage" \in invoked[c]
    /\ PipelineFails(args[c][1])
    /\ result[c][1].error # None

\* C2: under every interleaving each call produces one result and records
\* exactly one audit entry, whose isNSFW, confidence and error are those of
\* the result; a call that has not returned has recorded nothing.
C2_ExactlyOneAudit ==
  \A c \in Calls :
    /\ pc[c] # "threw"
    /\ pc[c] = "returned" =>
         /\ result[c] # None
         /\ Len(logged[c]) = 1
         /\ logged[c][1].isNSFW = result[c][1].isNSFW
         /\ logged[c][1].confidence = result[c][1].confidence
         /\ logged[c][1].error = result[c][1].error
    /\ pc[c] # "returned" => result[c] = None /\ logged[c] = << >>

\* Two calls were in flight together and both returned, the one blocked and
\* the other allowed, each with its own entry in the log.
C2_Witness ==
  \E c1, c2 \in Calls :
    /\ c1 # c2
    /\ Returned(c1) /\ Returned(c2)
    /\ "preprocessImage" \in invoked[c1] /\ "preprocessImage" \in invoked[c2]
    /\ result[c1][1].isNSFW /\ ~result[c2][1].isNSFW
    /\ logged[c1][1].timestamp < logged[c2][1].timestamp
    /\ Len(auditLogs) = 2

\* C3: a call never ends by throwing, and every call that is suspended at an
\* await eventually returns a result.
C3_Completes ==
  \A c \in Calls :
    /\ [](pc[c] # "threw")
    /\ (pc[c] \notin {"idle", "returned"}) ~> (pc[c] = "returned" /\ result[c] # None)

\* A call whose metadata decoding threw has returned, and so has one whose
\* preprocessing resolved to null.
C3_Witness ==
  \E c1, c2 \in Calls :
    /\ Returned(c1) /\ Undecodable(args[c1][1])
    /\ Returned(c2) /\ "preprocessImage" \in invoked[c2] /\ tensorData[c2] = None

\* C4: a call whose declared fileSize exceeds 50 * 1024 * 1024 has returned
\* the fail-closed result with its error set, and has invoked neither the
\* metadata decoding nor preprocessImage.
C4_SizeFirst ==
  \A c \in Calls :
    (args[c] # None /\ Oversize(args[c][1])) =>
      /\ Returned(c)
      /\ FailClosedWithError(result[c][1])
      /\ invoked[c] = {}

C4_Witness ==
  \E c \in Calls :
    /\ Returned(c)
    /\ args[c][1].fileSize = Some(50 * 1024 * 1024 + 1)
    /\ ~Undecodable(args[c][1])

\* C5: a call within the size cap whose decoded format is absent or outside
\* jpeg, png, webp, gif never invokes preprocessImage, and returns the
\* fail-closed result with its error set.
C5_FormatRejected ==
  \A c \in Calls :
    (args[c] # None /\ ~Oversize(args[c][1]) /\ BadFormat(args[c][1])) =>
      /\ "preprocessImage" \notin invoked[c]
      /\ pc[c] \in {"awaitMetadata", "returned"}
      /\ pc[c] = "returned" => result[c] # None /\ FailClosedWithError(result[c][1])

C5_Witness ==
  \E c \in Calls :
    /\ Returned(c)
    /\ ~Oversize(args[c][1])
    /\ ~Undecodable(args[c][1])
    /\ args[c][1].imageBuffer.metadata[1].format = Some("tiff")

\* C6: for an input whose decoded width or height exceeds 4096 or is missing,
\* preprocessImage resolves to null without starting the resize or producing
\* a tensor, and detectNSFW returns the fail-closed result with its error set.
C6_DimensionsRejected ==
  \A c \in Calls :
    (args[c] # None /\ BadDimensions(args[c][1])) =>
      /\ pc[c] \notin {"awaitResize", "awaitRaw"}
      /\ tensorData[c] = None
      /\ pc[c] = "returned" => result[c] # None /\ FailClosedWithError(result[c][1])

C6_Witness ==
  \E c \in Calls :
    /\ Returned(c)
    /\ "preprocessImage" \in invoked[c]
    /\ args[c][1].imageBuffer.metadata[1].height = Some(4097)

\* A returned call that preprocessImage rejected for its dimensions, and a
\* returned call that failed for another reason (size rejection, format
\* rejection or undecodable buffer, failure of the resize / raw pipeline).
OverDimensionCall(c) ==
  /\ Returned(c)
  /\ "preprocessImage" \in invoked[c]
  /\ BadDimensions(args[c][1])
OtherFailureCall(c) ==
  /\ Returned(c)
  /\ \/ Oversize(args[c][1])
     \/ ~Oversize(args[c][1]) /\ BadFormat(args[c][1])
     \/ /\ "preprocessImage" \in invoked[c]
        /\ ~BadDimensions(args[c][1])
        /\ PipelineFails(args[c][1])

\* C7: each validator rejection yields an error specific to its reason: the
\* error of an over-dimension image differs from the error of the size
\* rejection, of the format rejection and of a generic preprocessing failure;
\* and the error returned is the error written to the audit entry.
C7_SpecificErrors ==
  /\ \A c \in Calls :
       Returned(c) => Len(logged[c]) = 1 /\ logged[c][1].error = result[c][1].error
  /\ \A c1, c2 \in Calls :
       (OverDimensionCall(c1) /\ OtherFailureCall(c2)) =>
         result[c1][1].error # result[c2][1].error

\* The last n elements of a sequence.
LastN(seq, n) == SubSeq(seq, Len(seq) - n + 1, Len(seq))
\* Every entry recorded since the last clear: the initial log, if it has not
\* been cleared, then the entries recorded since.
History == (IF recorded.prefilled THEN Prefill ELSE << >>) \o recorded.entries
\* The log holds at most 10,000 entries and is the last min(n, 10000) of the
\* n entries of the history, in the order recorded.
LastRecorded ==
  /\ Len(auditLogs) <= 10000
  /\ auditLogs = LastN(History, IF Len(History) < 10000 THEN Len(History) ELSE 10000)

\* C8: the audit log never holds more than 10,000 entries and is exactly the
\* last min(n, 10000) of the n entries recorded since the last clear, in the
\* order recorded; and its length decreases only when it is cleared (an
\* eviction at the bound follows a push, and leaves the length at the bound).
C8_AuditBoundFIFO ==
  /\ LastRecorded
  /\ [][/\ LastRecorded'
        /\ Len(auditLogs') < Len(auditLogs) =>
             (ret'.op = "clearAuditLogs" /\ auditLogs' = << >>)]_vars

\* More than 10,000 entries were recorded: the oldest was evicted and the
\* newest, a size rejection, is the last of the log.
C8_Witness ==
  /\ Len(History) = 10001
  /\ Len(auditLogs) = 10000
  /\ auditLogs[1] = History[2]
  /\ auditLogs[10000] = History[10001]
  /\ auditLogs[10000].error # None

\* C9: for every limit >= 0, getAuditLogs(limit) returns the min(limit, log
\* length) most recently recorded entries, most recent first.
C9_MostRecentFirst ==
  ret.op = "getAuditLogs" =>
    LET k == IF ret.arg < Len(auditLogs) THEN ret.arg ELSE Len(auditLogs) IN
      /\ Len(ret.value) = k
      /\ \A i \in 1..k : ret.value[i] = auditLogs[Len(auditLogs) - i + 1]

\* C10: getAuditLogs and getNSFWStats leave the audit log as it was, the same
\* records in the same order.
C10_ReadOnly ==
  [][ret'.op \in {"getAuditLogs", "getNSFWStats"} => auditLogs' = auditLogs]_vars

\* getAuditLogs has returned both entries of a log of two, newest first.
C10_Witness ==
  /\ ret.op = "getAuditLogs"
  /\ Len(auditLogs) = 2
  /\ Len(ret.value) = 2
  /\ ret.value[1] = auditLogs[2]
  /\ ret.value # auditLogs

\* The statistics of an empty log: the three counts 0 and the rate the number 0.
ZeroStats(stats) ==
  /\ stats.totalChecks = 0
  /\ stats.blockedCount = 0
  /\ stats.allowedCount = 0
  /\ stats.blockRate.num = 0
  /\ stats.blockRate.den # 0

\* C11: from any state of the audit log, clearAuditLogs immediately followed
\* by getNSFWStats returns totalChecks = 0, blockedCount = 0, allowedCount = 0
\* and blockRate = 0, a number and not the 0 / 0 of a division by zero.
C11_ClearThenStats ==
  [][(ret.op = "clearAuditLogs" /\ ret'.op = "getNSFWStats") => ZeroStats(ret'.value)]_vars

\* getNSFWStats has returned the zero statistics for a log that held entries
\* before it was cleared.
C11_Witness ==
  /\ ret.op = "getNSFWStats"
  /\ now > 0
  /\ recorded = [prefilled |-> FALSE, entries |-> << >>]
  /\ auditLogs = << >>
  /\ ZeroStats(ret.value)

\* The number of calls of a history that returned isNSFW = true.
NumBlocked(h) == Len(SelectSeq(h, LAMBDA e : e.isNSFW))
\* The statistics of n calls of which b were blocked: the counts and the rate
\* b / n * 100.
StatsOf(n, b) ==
  [totalChecks |-> n, blockedCount |-> b, allowedCount |-> n - b,
   blockRate |-> [num |-> b * 100, den |-> n]]

\* C12 (as stated): for every N >= 1, after N detectNSFW calls of which B
\* returned isNSFW = true, getNSFWStats returns totalChecks = N,
\* blockedCount = B, allowedCount = N - B and blockRate = B / N * 100.
C12_StatsOfAllCalls ==
  (ret.op = "getNSFWStats" /\ Len(History) >= 1)
    => ret.value = StatsOf(Len(History), NumBlocked(History))

\* C12: for every N >= 1, after N detectNSFW calls since the last clear,
\* getNSFWStats returns the statistics of the min(N, 10000) most recent of
\* them: totalChecks = min(N, 10000), blockedCount = the number B of those
\* that returned isNSFW = true, allowedCount = totalChecks - B and
\* blockRate = B / totalChecks * 100; for N <= 10000 these are N, B, N - B
\* and B / N * 100.
C12_StatsOfLoggedCalls ==
  (ret.op = "getNSFWStats" /\ Len(History) >= 1)
    => LET kept == LastN(History, Min(Len(History), 10000))
       IN  ret.value = StatsOf(Len(kept), NumBlocked(kept))

\* getNSFWStats has returned 2, 1, 1 and the rate 50 after two calls, the
\* first blocked and the second allowed.
C12_Witness ==
  /\ ret.op = "getNSFWStats"
  /\ Len(History) = 2
  /\ History[1].isNSFW
  /\ ~History[2].isNSFW
  /\ ret.value = StatsOf(2, 1)

\* C13: the decision maps a confidence c to nsfw when c > 0.7, to uncertain
\* when 0.4 < c <= 0.7 and to safe when c <= 0.4 (so 0.7 is uncertain and 0.4
\* is safe), and in every result without an error isNSFW is true exactly when
\* the category is nsfw.
C13_DecisionPolicy ==
  \A c \in Calls :
    (result[c] # None /\ result[c][1].error = None) =>
      LET r == result[c][1] IN
      /\ r.confidence > 70 => r.category = "nsfw"
      /\ (40 < r.confidence /\ r.confidence <= 70) => r.category = "uncertain"
      /\ r.confidence <= 40 => r.category = "safe"
      /\ r.isNSFW <=> r.category = "nsfw"

\* The decision on the confidence 0.7 has returned uncertain and not blocked,
\* after the decision on 0.4 was recorded as allowed.
C13_Witness ==
  /\ result[1] = Some(Result(FALSE, 70, "uncertain", None))
  /\ Len(auditLogs) = 2
  /\ auditLogs[1].confidence = 40
  /\ ~auditLogs[1].isNSFW

\* Caller k makes its call of initializeModel in this step.
Calls_initializeModel(k) == initPc[k] = "idle" /\ initPc'[k] # "idle"
\* The latest initialization attempt has failed.
LastAttemptFailed ==
  promises # << >> /\ promises[Len(promises)].state = "rejected"

\* C14: after an initialization attempt has failed, the next call of
\* initializeModel starts a fresh attempt (it runs downloadModel again and
\* awaits the new load) instead of re-reporting the earlier failure.
C14_RetryAfterFailure ==
  [][\A k \in InitCallers :
       (Calls_initializeModel(k) /\ LastAttemptFailed)
         => /\ Len(promises') = Len(promises) + 1
            /\ awaited'[k] = Len(promises')]_vars

\* The promises that are pending.
InFlight == { p \in 1..Len(promises) : promises[p].state = "pending" }
\* Caller k observes the outcome of promise p: it awaits p, returns only if p
\* was fulfilled, and throws only if p was rejected, with the reason of p.
Observes(k, p) ==
  /\ initPc[k] # "idle"
  /\ awaited[k] = p
  /\ initPc[k] = "returned" => promises[p].state = "fulfilled"
  /\ initPc[k] = "threw" =>
       (promises[p].state = "rejected" /\ initRet[k] = promises[p].reason)

\* C15: under any number of concurrent callers of initializeModel at most one
\* initialization attempt is in flight at any time, and every caller that
\* arrives while an attempt is in flight observes the outcome of that attempt:
\* it returns if the attempt succeeds and throws its failure if it fails.
C15_SingleFlight ==
  /\ Cardinality(InFlight) <= 1
  /\ \A k \in InitCallers : arrived[k] # 0 => Observes(k, arrived[k])

\* Two callers arrived while the attempt of a third was in flight, and all
\* three threw the one failure of that attempt.
C15_Witness ==
  /\ Len(promises) = 1
  /\ promises[1].state = "rejected"
  /\ \A k \in InitCallers : initPc[k] = "threw" /\ initRet[k] = Some(FsError)
  /\ Cardinality({ k \in InitCallers : arrived[k] = 1 }) = NumInitCalls - 1

\* Some call of initializeModel has completed without error.
SomeReturned == \E k \in InitCallers : initPc[k] = "returned"

\* C16: once a call of initializeModel has completed without error, the
\* session it returns is a loaded model session (not null), and every later
\* call returns that same session without starting another initialization.
C16_SessionLoaded ==
  [][/\ \A k \in InitCallers :
          initPc'[k] = "returned" => (initRet'[k] # None /\ initRet'[k] = modelSession')
     /\ SomeReturned =>
          /\ Len(promises') = Len(promises)
          /\ \A j, k \in InitCallers :
               (initPc'[j] = "returned" /\ initPc'[k] = "returned")
                 => initRet'[j] = initRet'[k]]_vars

\* C17: N simultaneous detectNSFW calls made before the engine is ready result
\* in exactly one initialization sequence, and once it finishes either all N
\* calls complete without error or all N return the fail-closed verdict of
\* the one initialization failure.
C17_OneInitialization ==
  (\A c \in Calls : Returned(c) /\ tensorData[c] # None) =>
    /\ Len(promises) = 1
    /\ \/ \A c \in Calls : result[c][1].error = None
       \/ \A c \in Calls : FailClosedWithError(result[c][1])

\* The verdict of a result: isNSFW, confidence and category.
Verdict(r) == << r.isNSFW, r.confidence, r.category >>

\* C18: two detectNSFW calls with the same buffer, fileName, userId and
\* fileSize return the same isNSFW, confidence and category, whatever the
\* audit log holds, whatever the state of the engine, and however the calls
\* are interleaved with each other and with the other operations.
C18_Deterministic ==
  \A c, d \in Calls :
    (Returned(c) /\ Returned(d) /\ args[c] = args[d])
      => Verdict(result[c][1]) = Verdict(result[d][1])

\* Two calls on the same valid image have both returned the same verdict, the
\* second decided when the log already held the entry of the first.
C18_Witness ==
  /\ Returned(1) /\ Returned(2)
  /\ args[1] = args[2]
  /\ ~FailureOccurred(args[1][1])
  /\ Verdict(result[1][1]) = Verdict(result[2][1])
  /\ Len(auditLogs) = 2

\* The i-th sample of the resized image taken as a 3-channel RGB raster: the
\* colour channel i % 3 of pixel i \div 3, a greyscale image giving its grey
\* level in each of the three, and alpha left out.
RGBSample(img, i) ==
  IF img.channels >= 3 THEN Raster(img, i \div 3, i % 3) ELSE Raster(img, i \div 3, 0)
\* Equality of two fractions.
SameFraction(x, y) == x.num * y.den = y.num * x.den
\* The indices of a tensor.
TensorIndices == 0..(224 * 224 * 3 - 1)

\* C19: whenever preprocessImage returns a tensor, the tensor has exactly
\* 224 * 224 * 3 elements and its element i is p / 127.5 - 1.0 for the i-th
\* 8-bit sample p of the resized image taken as a 3-channel RGB raster, for a
\* source image of any channel count (alpha is dropped before the samples are
\* read).
C19_TensorIsRGB ==
  \A c \in Calls :
    tensorData[c] # None =>
      LET tensor == tensorData[c][1]
          img    == args[c][1].imageBuffer
      IN  /\ tensor.length = 224 * 224 * 3
          /\ \A i \in TensorIndices :
               SameFraction(TensorAt(tensor, i),
                            [num |-> 2 * RGBSample(img, i) - 255, den |-> 255])

\* C20: every detectNSFW call that passes the size, format and preprocessing
\* stages returns isNSFW = false, confidence 0.15 and category safe with no
\* error, whatever the image, and initializeModel is never invoked; hence
\* every audit record with isNSFW = true carries an error, and no result has
\* the category uncertain.
C20_MockVerdict ==
  /\ \A c \in Calls :
       (Returned(c) /\ tensorData[c] # None)
         => result[c][1] = Result(FALSE, 15, "safe", None)
  /\ promises = << >> /\ modelLoadPromise = None
  /\ \A c \in Calls : "initializeModel" \notin invoked[c]
  /\ \A i \in 1..Len(auditLogs) : auditLogs[i].isNSFW => auditLogs[i].error # None
  /\ \A c \in Calls : result[c] # None => result[c][1].category # "uncertain"

\* Two calls on different valid images (a 100 x 100 png, a 4096 x 4096 jpeg)
\* have both passed the three stages and returned the mock verdict.
C20_Witness ==
  /\ Returned(1) /\ Returned(2)
  /\ tensorData[1] # None /\ tensorData[2] # None
  /\ args[1][1].imageBuffer # args[2][1].imageBuffer
  /\ result[1] = Some(Result(FALSE, 15, "safe", None))
  /\ result[2] = result[1]
  /\ Len(auditLogs) = 2
====
